---- MODULE Spec2Model ----
(***************************************************************************)
(* State-machine model of problematic/indexer.py: the single-phase         *)
(* Indexer (orientation search, refinement, set_pixelsize) and the         *)
(* IndexerMulti coordinator that owns one Indexer per phase.               *)
(*                                                                         *)
(* Numbers.  Python floats are modelled as decimal fixed point with five   *)
(* decimals: the integer x stands for x / 10^5.  round(x, 2) and           *)
(* round(x, 4) are round-half-even to a multiple of 10^3 and of 10.        *)
(* pixelsize and scale use the same unit, so 1/pixelsize is 10^10 \div p.  *)
(*                                                                         *)
(* External collaborators (the scoring kernel get_score_shape_lst /        *)
(* get_score_shape, the Projector, the lmfit optimizer) are not in the     *)
(* repository: every value they may hand back is an input of the action    *)
(* that calls them, drawn from a small set.                                *)
(***************************************************************************)
EXTENDS Integers, Sequences, FiniteSets, TLC

VARIABLES
    indexers,   \* phase key -> Indexer object (its attributes)
    owned,      \* IndexerMulti._indexers: the keys, in dict insertion order
    image,      \* the image at hand, as what the kernel get_score_shape_lst
                \* answers for it on each projection of each phase
    ret         \* the call whose outcome the caller holds: operation, arguments,
                \* error raised or value returned; NoCall between calls

vars == <<indexers, owned, image, ret>>

----------------------------------------------------------------------------
\* Bounds of the model

\* number of orientation samples (projections) in a library
NumSamples == 3
\* largest nsolutions argument tried
MaxSolutions == 3
\* longest list of results handed to refine_all
MaxResults == 2

----------------------------------------------------------------------------
\* Program constants

\* Indexer.minimum_reflections_in_projection
MinimumReflections == 10
\* the phase field of IndexingResultDType is '<S16'
S16Width == 16
\* default nsolutions of Indexer.find_orientation
DefaultNSolutions == 25

----------------------------------------------------------------------------
\* Fixed-point numbers

Unit == 10^5

Min(a, b) == IF a < b THEN a ELSE b

\* round-half-even of x to a multiple of step
RoundTo(x, step) ==
    LET q == x \div step
        r == x % step
    IN  IF 2 * r < step THEN q * step
        ELSE IF 2 * r > step THEN (q + 1) * step
        ELSE IF q % 2 = 0 THEN q * step
        ELSE (q + 1) * step

\* round(x, 2)
Round2(x) == RoundTo(x, Unit \div 100)

\* round(x, 4)
Round4(x) == RoundTo(x, Unit \div 10000)

\* 1/pixelsize for pixelsize # 0, i.e. floor(10^10 / p) without leaving 32 bits
Reciprocal(p) == (Unit \div p) * Unit + ((Unit % p) * Unit) \div p

----------------------------------------------------------------------------
\* Phase identifiers: Python str (dict keys, cell names) or numpy bytes

Str(chars) == [bytes |-> FALSE, chars |-> chars]

\* a one-character name
ShortName == Str(<<1>>)
\* two names of S16Width + 1 characters that differ only in the last one
LongName == Str([i \in 1..(S16Width + 1) |-> IF i <= S16Width THEN 1 ELSE 2])
OtherLongName == Str([i \in 1..(S16Width + 1) |-> IF i <= S16Width THEN 1 ELSE 3])

\* what storing a phase into the '<S16' field keeps: bytes, at most 16 of them
ToS16(p) == [bytes |-> TRUE, chars |-> SubSeq(p.chars, 1, Min(Len(p.chars), S16Width))]

----------------------------------------------------------------------------
\* IndexingResult records.  kind is the Python type that carries the nine
\* fields: "namedtuple" (IndexingResult), "void" (an element of the structured
\* ndarray find_orientation returns) or "record" (the recarray refine returns).

IndexingResult(score, number, alpha, beta, gamma, center_x, center_y, scale, phase) ==
    [kind |-> "namedtuple", score |-> score, number |-> number, alpha |-> alpha,
     beta |-> beta, gamma |-> gamma, center_x |-> center_x, center_y |-> center_y,
     scale |-> scale, phase |-> phase]

\* np.array(<namedtuple>, dtype=IndexingResultDType): the floats and the int
\* keep their value, the phase is stored as S16
ToDType(r, kind) == [r EXCEPT !.kind = kind, !.phase = ToS16(r.phase)]

\* ProjInfo(number, alpha, beta) of sample n: the tilt angles of the grid
Infos(n) == [number |-> n, alpha |-> n * 12346, beta |-> n * 4321 + 5]

----------------------------------------------------------------------------
\* Orientation search: Indexer.find_orientation

Samples == 0..(NumSamples - 1)

\* what get_score_shape_lst may return for one projection: <<score, gamma>>
ShapeLstOutcomes == { <<-50000, 12345>>, <<100400, 12345>>, <<100500, 31416>> }

\* the beam center argument: None, or (x, y)
NoCenter == [given |-> FALSE, x |-> 0, y |-> 0]
Center(x, y) == [given |-> TRUE, x |-> x, y |-> y]

\* the phase keyword: absent, or a value
NoPhase == [given |-> FALSE, value |-> Str(<<>>)]
Phase(p) == [given |-> TRUE, value |-> p]

\* self._vals before the first search, and after one
NoVals == [set |-> FALSE, v |-> <<>>]
SomeVals(v) == [set |-> TRUE, v |-> v]

\* tuple comparison of two (score, n, gamma) triples
TripleLT(a, b) ==
    \/ a[1] < b[1]
    \/ a[1] = b[1] /\ a[2] < b[2]
    \/ a[1] = b[1] /\ a[2] = b[2] /\ a[3] < b[3]

RECURSIVE InsertReverse(_, _)
\* x placed before the first element smaller than x
InsertReverse(t, x) ==
    IF t = <<>> THEN <<x>>
    ELSE IF TripleLT(Head(t), x) THEN <<x>> \o t
    ELSE <<Head(t)>> \o InsertReverse(Tail(t), x)

RECURSIVE SortedReverse(_)
\* sorted(s, reverse=True) on triples
SortedReverse(s) ==
    IF s = <<>> THEN <<>>
    ELSE InsertReverse(SortedReverse(SubSeq(s, 1, Len(s) - 1)), s[Len(s)])

\* s[0:n] for n >= 0
Take(s, n) == SubSeq(s, 1, Min(n, Len(s)))

\* heapq.nlargest(n, s)
NLargest(n, s) == Take(SortedReverse(s), n)

\* (variant: the threshold one reflection too low)
QualifiesOffByOne(ix, n) == ix.projections[n] >= MinimumReflections - 1

\* the minimum-reflection test of the loop (a failing projection is skipped)
Qualifies(ix, n) == ~(ix.projections[n] < MinimumReflections)

\* best_score, best_gamma start at 0 and take the kernel's answer if it is larger
BestOf(out) == IF out[1] > 0 THEN out ELSE <<0, 0>>

RECURSIVE ValsFrom(_, _, _)
\* the vals list built by the loop over enumerate(self.projections), from sample n on
ValsFrom(ix, scores, n) ==
    IF n >= NumSamples THEN <<>>
    ELSE (IF Qualifies(ix, n)
          THEN << <<BestOf(scores[n])[1], n, BestOf(scores[n])[2]>> >>
          ELSE <<>>) \o ValsFrom(ix, scores, n + 1)

\* (variant: the kept candidates in ascending order)
TopSolutionsAscending(vals, nsolutions) ==
    LET s == Take(SortedReverse(vals), nsolutions)
    IN  [i \in 1..Len(s) |-> s[Len(s) + 1 - i]]

\* (variant: the scores rounded to 2 decimals before the candidates are sorted)
TopSolutionsRounded(vals, nsolutions) ==
    Take(SortedReverse([i \in 1..Len(vals) |-> <<Round2(vals[i][1]), vals[i][2], vals[i][3]>>]),
         nsolutions)

\* (variant: every candidate kept)
TopSolutionsUncut(vals, nsolutions) == SortedReverse(vals)

\* heap = heapq.nlargest(nsolutions, vals); heap = sorted(heap, reverse=True)[0:nsolutions]
TopSolutions(vals, nsolutions) == Take(SortedReverse(NLargest(nsolutions, vals)), nsolutions)

\* one retained triple as an IndexingResult
Materialize(t, center, scale, phase) ==
    IndexingResult(Round2(t[1]), t[2], Round4(Infos(t[2]).alpha), Round4(Infos(t[2]).beta),
                   Round4(t[3]), center.x, center.y, Round4(scale), phase)

\* the whole call: the error raised ("" when none), the array returned and self._vals
FindOrientationCall(ix, center, nsolutions, phaseArg, scores) ==
    IF ~ix.hasProjector
    THEN \* the default of kwargs.get("phase", ...) reads self.projector
         [error |-> "AttributeError", value |-> <<>>, vals |-> ix.vals]
    ELSE IF ~center.given
    THEN \* center_x, center_y = None
         [error |-> "TypeError", value |-> <<>>, vals |-> ix.vals]
    ELSE LET phase == IF phaseArg.given THEN phaseArg.value ELSE ix.cellname
             vals == ValsFrom(ix, scores, 0)
             heap == TopSolutions(vals, nsolutions)
         IN  [error |-> "",
              value |-> [i \in 1..Len(heap) |->
                            ToDType(Materialize(heap[i], center, ix.scale, phase), "void")],
              vals |-> SomeVals(vals)]

\* Indexer.index
IndexCall(ix, center, nsolutions, phaseArg, scores) ==
    IF ~center.given
    THEN [error |-> "ValueError", value |-> <<>>, vals |-> ix.vals]
    ELSE FindOrientationCall(ix, center, nsolutions, phaseArg, scores)

----------------------------------------------------------------------------
\* Indexer.set_pixelsize: two assignments, the second of which may raise

SetPixelsizeCall(ix, p) ==
    IF p = 0
    THEN \* self.pixelsize = 0 is done when 1/pixelsize raises
         [error |-> "ZeroDivisionError", ix |-> [ix EXCEPT !.pixelsize = p]]
    ELSE [error |-> "", ix |-> [ix EXCEPT !.pixelsize = p, !.scale = Reciprocal(p)]]

RECURSIVE MultiSetPixelsizeFrom(_, _, _, _)
\* IndexerMulti.set_pixelsize from the i-th owned indexer on: stops at the first error
MultiSetPixelsizeFrom(ixs, keys, i, p) ==
    IF i > Len(keys) THEN [error |-> "", ixs |-> ixs]
    ELSE LET o == SetPixelsizeCall(ixs[keys[i]], p)
             next == [ixs EXCEPT ![keys[i]] = o.ix]
         IN  IF o.error # "" THEN [error |-> o.error, ixs |-> next]
             ELSE MultiSetPixelsizeFrom(next, keys, i + 1, p)

----------------------------------------------------------------------------
\* Refinement: Indexer.refine and Indexer.refine_all

\* what the optimizer may hand back: an offset of each center coordinate within
\* [-2.0, +2.0], the scale as tenths of the input scale within [0.8, 1.2], and
\* a free shift of the angles
Fits ==
    [dx : {-2 * Unit, -61803, 2 * Unit}, dy : {0, 2 * Unit},
     sf : {8, 11, 12}, da : {0, 1234}, dg : {0, 1234}]

\* the four vary_* flags
VaryFlags == [center : BOOLEAN, scale : BOOLEAN, alphabeta : BOOLEAN, gamma : BOOLEAN]
VaryAll == [center |-> TRUE, scale |-> TRUE, alphabeta |-> TRUE, gamma |-> TRUE]

\* what get_score_shape may return
ShapeOutcomes == {-50000, 100400, 100500, 250000}
\* the same, for each result of a list
ListScores == {100400, 100500, 250000}

\* the declared bounds of the six lmfit parameters
CenterMin(c) == c - 2 * Unit
CenterMax(c) == c + 2 * Unit
ScaleMin(s) == (s * 8) \div 10
ScaleMax(s) == (s * 12) \div 10

\* res.params of lmfit.minimize: a parameter with vary=False keeps its value
Minimize(result, vary, fit) ==
    [center_x |-> IF vary.center THEN result.center_x + fit.dx ELSE result.center_x,
     center_y |-> IF vary.center THEN result.center_y + fit.dy ELSE result.center_y,
     alpha    |-> IF vary.alphabeta THEN result.alpha + fit.da ELSE result.alpha,
     beta     |-> IF vary.alphabeta THEN result.beta - fit.da ELSE result.beta,
     gamma    |-> IF vary.gamma THEN result.gamma + fit.dg ELSE result.gamma,
     scale    |-> IF vary.scale THEN (result.scale * fit.sf) \div 10 ELSE result.scale]

\* (variant: the fitted parameters packed without rounding)
RefinedUnrounded(result, p, score) ==
    IndexingResult(Round2(score), result.number, p.alpha, p.beta,
                   p.gamma, p.center_x, p.center_y, p.scale, result.phase)

\* the record refine packs from the fitted parameters and the final score
Refined(result, p, score) ==
    IndexingResult(Round2(score), result.number, Round4(p.alpha), Round4(p.beta),
                   Round4(p.gamma), Round2(p.center_x), Round2(p.center_y),
                   Round2(p.scale), result.phase)

\* Indexer.refine: projector says whether the projector keyword is supplied
RefineCall(ix, result, projector, vary, fit, score) ==
    IF ~projector /\ ~ix.hasProjector
    THEN [error |-> "AttributeError", value |-> <<>>]
    ELSE IF result.kind = "void"
    THEN \* numpy.void has no attribute center_x
         [error |-> "AttributeError", value |-> <<>>]
    ELSE [error |-> "",
          value |-> <<ToDType(Refined(result, Minimize(result, vary, fit), score), "record")>>]

\* t.score < u.score, the order sorted(..., key=lambda t: t.score) uses
ScoreLT(t, u) == t.score < u.score

RECURSIVE InsertByScore(_, _)
InsertByScore(t, x) ==
    IF t = <<>> THEN <<x>>
    ELSE IF ScoreLT(Head(t), x) THEN <<x>> \o t
    ELSE <<Head(t)>> \o InsertByScore(Tail(t), x)

RECURSIVE SortedByScore(_)
\* sorted(s, key=lambda t: t.score, reverse=True): stable
SortedByScore(s) ==
    IF s = <<>> THEN <<>>
    ELSE InsertByScore(SortedByScore(SubSeq(s, 1, Len(s) - 1)), s[Len(s)])

RECURSIVE RefineEach(_, _, _, _, _, _, _)
\* [self.refine(img, result, **kwargs) for result in results], from the i-th on;
\* fits[i] and scores[i] are what the optimizer and the kernel give for the i-th
RefineEach(ix, results, projector, vary, fits, scores, i) ==
    IF i > Len(results) THEN [error |-> "", value |-> <<>>]
    ELSE LET o == RefineCall(ix, results[i], projector, vary, fits[i], scores[i])
         IN  IF o.error # "" THEN o
             ELSE LET rest == RefineEach(ix, results, projector, vary, fits, scores, i + 1)
                  IN  IF rest.error # "" THEN rest
                      ELSE [error |-> "", value |-> o.value \o rest.value]

\* Indexer.refine_all
RefineAllCall(ix, results, sort, projector, vary, fits, scores) ==
    LET o == RefineEach(ix, results, projector, vary, fits, scores, 1)
    IN  IF o.error # "" THEN o
        ELSE [error |-> "", value |-> IF sort THEN SortedByScore(o.value) ELSE o.value]

----------------------------------------------------------------------------
\* The coordinator: IndexerMulti

\* default nsolutions of IndexerMulti.index
MultiDefaultNSolutions == 20

\* the nsolutions keyword: absent, or a value
NoNSolutions == [given |-> FALSE, n |-> 0]
NSolutions(n) == [given |-> TRUE, n |-> n]

\* score*(indexer.projector.cell.volume/5000), rounded down to the unit
Rescale(score, volume) ==
    (score \div 5000) * volume + ((score % 5000) * volume) \div 5000

\* r._replace(score=r.score*(volume/5000)): _replace is a method of the
\* IndexingResult namedtuple; an element of a structured ndarray (numpy.void)
\* and a recarray have no such attribute
ReplaceScore(r, volume) ==
    IF r.kind = "namedtuple"
    THEN [error |-> "", value |-> <<[r EXCEPT !.score = Rescale(r.score, volume)]>>]
    ELSE [error |-> "AttributeError", value |-> <<>>]

RECURSIVE ReplaceEach(_, _, _)
\* [r._replace(...) for r in res], from the i-th element on
ReplaceEach(res, volume, i) ==
    IF i > Len(res) THEN [error |-> "", value |-> <<>>]
    ELSE LET o == ReplaceScore(res[i], volume)
         IN  IF o.error # "" THEN o
             ELSE LET rest == ReplaceEach(res, volume, i + 1)
                  IN  IF rest.error # "" THEN rest
                      ELSE [error |-> "", value |-> o.value \o rest.value]

RECURSIVE MultiIndexFrom(_, _, _, _, _, _)
\* the loop of IndexerMulti.index from the i-th owned phase on: each indexer is
\* called with phase=<its key> and the caller's kwargs, and the scores of what
\* it returns are rescaled by the phase's cell volume
MultiIndexFrom(ixs, keys, i, center, nsolutions, img) ==
    IF i > Len(keys) THEN [error |-> "", value |-> <<>>, ixs |-> ixs]
    ELSE LET k == keys[i]
             o == IndexCall(ixs[k], center,
                            IF nsolutions.given THEN nsolutions.n ELSE DefaultNSolutions,
                            Phase(k), img[k])
             next == [ixs EXCEPT ![k].vals = o.vals]
             res == ReplaceEach(o.value, ixs[k].volume, 1)
         IN  IF o.error # "" THEN [error |-> o.error, value |-> <<>>, ixs |-> next]
             ELSE IF res.error # "" THEN [error |-> res.error, value |-> <<>>, ixs |-> next]
             ELSE LET rest == MultiIndexFrom(next, keys, i + 1, center, nsolutions, img)
                  IN  IF rest.error # "" THEN rest
                      ELSE [rest EXCEPT !.value = res.value \o rest.value]

\* IndexerMulti.index: sorted(results, key=score, reverse=True)[0:nsolutions]
\* of what the loop collected
MultiIndexCall(ixs, keys, center, nsolutions, img) ==
    LET o == MultiIndexFrom(ixs, keys, 1, center, nsolutions, img)
    IN  [o EXCEPT !.value = Take(SortedByScore(o.value),
                                 IF nsolutions.given THEN nsolutions.n
                                 ELSE MultiDefaultNSolutions)]

\* the keys of self._indexers
OwnedKeys(keys) == { keys[i] : i \in 1..Len(keys) }

\* (variant: an unknown phase falls back to the first owned indexer)
LookupFallback(keys, result) ==
    IF result.kind = "void" THEN [error |-> "AttributeError", key |-> Str(<<>>)]
    ELSE IF result.phase \in OwnedKeys(keys) THEN [error |-> "", key |-> result.phase]
    ELSE IF keys # <<>> THEN [error |-> "", key |-> keys[1]]
    ELSE [error |-> "KeyError", key |-> result.phase]

\* phase = result.phase; self._indexers[phase]: an element of a structured
\* ndarray has no attribute phase, and a phase that is no key is a KeyError
Lookup(keys, result) ==
    IF result.kind = "void" THEN [error |-> "AttributeError", key |-> Str(<<>>)]
    ELSE IF result.phase \in OwnedKeys(keys) THEN [error |-> "", key |-> result.phase]
    ELSE [error |-> "KeyError", key |-> result.phase]

\* IndexerMulti.refine: the lookup by result.phase, the owner's refine, and
\* res._replace on the recarray it returns
MultiRefineCall(ixs, keys, result, vary, fit, score) ==
    LET l == Lookup(keys, result)
    IN  IF l.error # "" THEN [error |-> l.error, value |-> <<>>]
        ELSE LET o == RefineCall(ixs[l.key], result, FALSE, vary, fit, score)
             IN  IF o.error # "" THEN o
                 ELSE ReplaceScore(o.value[1], ixs[l.key].volume)

RECURSIVE MultiRefineEach(_, _, _, _, _, _, _)
MultiRefineEach(ixs, keys, results, vary, fits, scores, i) ==
    IF i > Len(results) THEN [error |-> "", value |-> <<>>]
    ELSE LET o == MultiRefineCall(ixs, keys, results[i], vary, fits[i], scores[i])
         IN  IF o.error # "" THEN o
             ELSE LET rest == MultiRefineEach(ixs, keys, results, vary, fits, scores, i + 1)
                  IN  IF rest.error # "" THEN rest
                      ELSE [error |-> "", value |-> o.value \o rest.value]

\* IndexerMulti.refine_all
MultiRefineAllCall(ixs, keys, results, sort, vary, fits, scores) ==
    LET o == MultiRefineEach(ixs, keys, results, vary, fits, scores, 1)
    IN  IF o.error # "" THEN o
        ELSE [error |-> "", value |-> IF sort THEN SortedByScore(o.value) ELSE o.value]

----------------------------------------------------------------------------
\* Post-processing of a result: projection, intensities, plot

\* what projector.get_projection(alpha, beta, gamma) hands back: the reflection
\* records of that orientation
Projection(alpha, beta, gamma) ==
    [kind |-> "projection", alpha |-> alpha, beta |-> beta, gamma |-> gamma]

\* what the module function get_intensities builds from that projection
Intensities(alpha, beta, gamma) ==
    [kind |-> "hklie", alpha |-> alpha, beta |-> beta, gamma |-> gamma]

\* Indexer.get_projection: proj is computed and the method ends without a
\* return statement, so the caller gets None (no value)
GetProjectionCall(ix, result) ==
    IF ~ix.hasProjector \/ result.kind = "void"
    THEN [error |-> "AttributeError", value |-> <<>>]
    ELSE LET proj == Projection(result.alpha, result.beta, result.gamma)
         IN  [error |-> "", value |-> <<>>]

\* Indexer.get_intensities
GetIntensitiesCall(ix, result) ==
    IF ~ix.hasProjector \/ result.kind = "void"
    THEN [error |-> "AttributeError", value |-> <<>>]
    ELSE [error |-> "", value |-> <<Intensities(result.alpha, result.beta, result.gamma)>>]

\* Indexer.plot: draws and returns nothing
PlotCall(ix, result, projector) ==
    IF result.kind = "void" \/ (~projector /\ ~ix.hasProjector)
    THEN [error |-> "AttributeError", value |-> <<>>]
    ELSE [error |-> "", value |-> <<>>]

\* IndexerMulti.get_projection
MultiGetProjectionCall(ixs, keys, result) ==
    LET l == Lookup(keys, result)
    IN  IF l.error # "" THEN [error |-> l.error, value |-> <<>>]
        ELSE GetProjectionCall(ixs[l.key], result)

\* IndexerMulti.get_intensities
MultiGetIntensitiesCall(ixs, keys, result) ==
    LET l == Lookup(keys, result)
    IN  IF l.error # "" THEN [error |-> l.error, value |-> <<>>]
        ELSE GetIntensitiesCall(ixs[l.key], result)

\* IndexerMulti.plot
MultiPlotCall(ixs, keys, result) ==
    LET l == Lookup(keys, result)
    IN  IF l.error # "" THEN [error |-> l.error, value |-> <<>>]
        ELSE PlotCall(ixs[l.key], result, FALSE)

----------------------------------------------------------------------------
\* Objects and the values calls are made with

Keys == {ShortName, LongName}

\* projector.cell.volume of a phase
CellVolume(k) == IF k = ShortName THEN 2500 ELSE 10000

\* Indexer.__init__: projections is the number of reflections of each projection
Indexer(projections, pixelsize, hasProjector, cellname) ==
    [projections |-> projections, pixelsize |-> pixelsize, scale |-> Reciprocal(pixelsize),
     hasProjector |-> hasProjector, cellname |-> cellname,
     volume |-> CellVolume(cellname), vals |-> NoVals]

\* libraries whose projections are just below or just at the threshold
Libraries == [Samples -> {MinimumReflections - 1, MinimumReflections}]
FullLibrary == [n \in Samples |-> MinimumReflections + n]
PoorLibrary == [n \in Samples |-> MinimumReflections - 1]
MixedLibrary == [n \in Samples |-> MinimumReflections - 1 + (n % 3)]

\* pixel sizes: 0.0025 and 0.00316 per pixel, and 0
PixelSizes == {0, 250, 316}

\* kernel answers for one library
ScoreFns == [Samples -> ShapeLstOutcomes]
RisingScores == [n \in Samples |-> IF n = 0 THEN <<-50000, 12345>>
                                    ELSE IF n % 2 = 1 THEN <<100400, 12345>>
                                    ELSE <<100500, 31416>>]
FlatScores == [n \in Samples |-> <<100400, 12345>>]

Centers == {NoCenter, Center(12800600, 12800000)}
NSolutionsArgs == {NoNSolutions} \cup {NSolutions(n) : n \in 0..MaxSolutions}
PhaseArgs == {NoPhase, Phase(OtherLongName)}

\* the nsolutions find_orientation works with
EffectiveNSolutions(a) == IF a.given THEN a.n ELSE DefaultNSolutions

\* results a caller may hand to refine: elements of a search result (void),
\* the same as IndexingResult tuples with the phase as str or as stored, and
\* records that refine returned
SearchOutput ==
    FindOrientationCall(Indexer(FullLibrary, 316, TRUE, ShortName),
                        Center(12800600, 12800000), 3, NoPhase, RisingScores).value
Voids == { SearchOutput[i] : i \in 1..Len(SearchOutput) }
Tuples ==
    { [r EXCEPT !.kind = "namedtuple", !.phase = p] :
        r \in Voids, p \in {ShortName, LongName, OtherLongName, ToS16(ShortName)} }
Records == { [r EXCEPT !.kind = "record", !.score = 100000 + 1000 * r.number] : r \in Voids }
InputResults == Voids \cup Tuples \cup Records

\* lists of results for refine_all: three results told apart by their number
ListInputs ==
    { r \in Tuples : r.number = 2 /\ r.phase = ShortName }
      \cup { r \in Tuples : r.number = 1 /\ r.phase = ToS16(ShortName) }
      \cup { r \in Records : r.number = 0 }
ResultLists == UNION { [1..n -> ListInputs] : n \in 0..MaxResults }
FewLists == { rs \in ResultLists : \A i \in 1..Len(rs) : rs[i].number = 3 - i }
FewFits == { f \in Fits : f.dx = f.dy /\ f.sf = 12 /\ f.da = f.dg }
OneFit == CHOOSE f \in FewFits : f.da = 0

NoCall ==
    [op |-> "none", self |-> Str(<<>>), center |-> NoCenter, nsolutions |-> NoNSolutions,
     phaseArg |-> NoPhase, pixelsize |-> 0, input |-> <<>>, projector |-> FALSE,
     vary |-> VaryAll, sort |-> FALSE, error |-> "", value |-> <<>>]

----------------------------------------------------------------------------
\* Actions: one per public method; Return is the caller taking the outcome

Index(k, center, nsolutions, phaseArg) ==
    /\ ret = NoCall
    /\ LET o == IndexCall(indexers[k], center, EffectiveNSolutions(nsolutions),
                          phaseArg, image[k])
       IN  /\ indexers' = [indexers EXCEPT ![k].vals = o.vals]
           /\ ret' = [NoCall EXCEPT !.op = "Indexer.index", !.self = k, !.center = center,
                         !.nsolutions = nsolutions, !.phaseArg = phaseArg,
                         !.error = o.error, !.value = o.value]
    /\ UNCHANGED <<owned, image>>

FindOrientation(k, center, nsolutions, phaseArg) ==
    /\ ret = NoCall
    /\ LET o == FindOrientationCall(indexers[k], center, EffectiveNSolutions(nsolutions),
                                    phaseArg, image[k])
       IN  /\ indexers' = [indexers EXCEPT ![k].vals = o.vals]
           /\ ret' = [NoCall EXCEPT !.op = "Indexer.find_orientation", !.self = k,
                         !.center = center, !.nsolutions = nsolutions,
                         !.phaseArg = phaseArg, !.error = o.error, !.value = o.value]
    /\ UNCHANGED <<owned, image>>

MultiIndex(center, nsolutions) ==
    /\ ret = NoCall
    /\ LET o == MultiIndexCall(indexers, owned, center, nsolutions, image)
       IN  /\ indexers' = o.ixs
           /\ ret' = [NoCall EXCEPT !.op = "IndexerMulti.index", !.center = center,
                         !.nsolutions = nsolutions, !.error = o.error,
                         !.value = o.value]
    /\ UNCHANGED <<owned, image>>

SetPixelsize(k, p) ==
    /\ ret = NoCall
    /\ LET o == SetPixelsizeCall(indexers[k], p)
       IN  /\ indexers' = [indexers EXCEPT ![k] = o.ix]
           /\ ret' = [NoCall EXCEPT !.op = "Indexer.set_pixelsize", !.self = k,
                         !.pixelsize = p, !.error = o.error]
    /\ UNCHANGED <<owned, image>>

MultiSetPixelsize(p) ==
    /\ ret = NoCall
    /\ LET o == MultiSetPixelsizeFrom(indexers, owned, 1, p)
       IN  /\ indexers' = o.ixs
           /\ ret' = [NoCall EXCEPT !.op = "IndexerMulti.set_pixelsize",
                         !.pixelsize = p, !.error = o.error]
    /\ UNCHANGED <<owned, image>>

Refine(k, result, projector, vary, fit, score) ==
    /\ ret = NoCall
    /\ LET o == RefineCall(indexers[k], result, projector, vary, fit, score)
       IN  ret' = [NoCall EXCEPT !.op = "Indexer.refine", !.self = k, !.input = <<result>>,
                      !.projector = projector, !.vary = vary,
                      !.error = o.error, !.value = o.value]
    /\ UNCHANGED <<indexers, owned, image>>

RefineAll(k, results, sort, projector, vary, fits, scores) ==
    /\ ret = NoCall
    /\ LET o == RefineAllCall(indexers[k], results, sort, projector, vary, fits, scores)
       IN  ret' = [NoCall EXCEPT !.op = "Indexer.refine_all", !.self = k, !.input = results,
                      !.projector = projector, !.vary = vary, !.sort = sort,
                      !.error = o.error, !.value = o.value]
    /\ UNCHANGED <<indexers, owned, image>>

MultiRefine(result, vary, fit, score) ==
    /\ ret = NoCall
    /\ LET o == MultiRefineCall(indexers, owned, result, vary, fit, score)
       IN  ret' = [NoCall EXCEPT !.op = "IndexerMulti.refine", !.input = <<result>>,
                      !.vary = vary, !.error = o.error, !.value = o.value]
    /\ UNCHANGED <<indexers, owned, image>>

MultiRefineAll(results, sort, vary, fits, scores) ==
    /\ ret = NoCall
    /\ LET o == MultiRefineAllCall(indexers, owned, results, sort, vary, fits, scores)
       IN  ret' = [NoCall EXCEPT !.op = "IndexerMulti.refine_all", !.input = results,
                      !.vary = vary, !.sort = sort, !.error = o.error, !.value = o.value]
    /\ UNCHANGED <<indexers, owned, image>>

GetProjection(k, result) ==
    /\ ret = NoCall
    /\ LET o == GetProjectionCall(indexers[k], result)
       IN  ret' = [NoCall EXCEPT !.op = "Indexer.get_projection", !.self = k,
                      !.input = <<result>>, !.error = o.error, !.value = o.value]
    /\ UNCHANGED <<indexers, owned, image>>

GetIntensities(k, result) ==
    /\ ret = NoCall
    /\ LET o == GetIntensitiesCall(indexers[k], result)
       IN  ret' = [NoCall EXCEPT !.op = "Indexer.get_intensities", !.self = k,
                      !.input = <<result>>, !.error = o.error, !.value = o.value]
    /\ UNCHANGED <<indexers, owned, image>>

Plot(k, result, projector) ==
    /\ ret = NoCall
    /\ LET o == PlotCall(indexers[k], result, projector)
       IN  ret' = [NoCall EXCEPT !.op = "Indexer.plot", !.self = k, !.input = <<result>>,
                      !.projector = projector, !.error = o.error, !.value = o.value]
    /\ UNCHANGED <<indexers, owned, image>>

MultiGetProjection(result) ==
    /\ ret = NoCall
    /\ LET o == MultiGetProjectionCall(indexers, owned, result)
       IN  ret' = [NoCall EXCEPT !.op = "IndexerMulti.get_projection",
                      !.input = <<result>>, !.error = o.error, !.value = o.value]
    /\ UNCHANGED <<indexers, owned, image>>

MultiGetIntensities(result) ==
    /\ ret = NoCall
    /\ LET o == MultiGetIntensitiesCall(indexers, owned, result)
       IN  ret' = [NoCall EXCEPT !.op = "IndexerMulti.get_intensities",
                      !.input = <<result>>, !.error = o.error, !.value = o.value]
    /\ UNCHANGED <<indexers, owned, image>>

MultiPlot(result) ==
    /\ ret = NoCall
    /\ LET o == MultiPlotCall(indexers, owned, result)
       IN  ret' = [NoCall EXCEPT !.op = "IndexerMulti.plot", !.input = <<result>>,
                      !.error = o.error, !.value = o.value]
    /\ UNCHANGED <<indexers, owned, image>>

Return ==
    /\ ret # NoCall
    /\ ret' = NoCall
    /\ UNCHANGED <<indexers, owned, image>>

----------------------------------------------------------------------------
\* Specifications

\* the search on every library and image, one Indexer under study
InitSearch ==
    /\ owned = <<ShortName, LongName>>
    /\ \E lib \in Libraries, other \in {FullLibrary, PoorLibrary},
          p \in PixelSizes \ {0}, hp \in BOOLEAN :
          indexers = [k \in Keys |-> IF k = ShortName THEN Indexer(lib, p, hp, k)
                                     ELSE Indexer(other, 316, TRUE, k)]
    /\ \E f \in ScoreFns : image = [k \in Keys |-> IF k = ShortName THEN f ELSE FlatScores]
    /\ ret = NoCall

NextSearch ==
    \/ ret = NoCall /\ \E center \in Centers, n \in NSolutionsArgs, ph \in PhaseArgs :
          Index(ShortName, center, n, ph)
    \/ ret = NoCall /\ \E center \in Centers, n \in NSolutionsArgs, ph \in PhaseArgs :
          FindOrientation(ShortName, center, n, ph)
    \/ ret = NoCall /\ \E center \in Centers, n \in NSolutionsArgs : MultiIndex(center, n)
    \/ Return

SpecSearch == InitSearch /\ [][NextSearch]_vars

\* refinement of every kind of result under every choice of the optimizer
InitRefine ==
    /\ owned = <<ShortName, LongName>>
    /\ \E hp \in BOOLEAN :
          indexers = [k \in Keys |-> Indexer(FullLibrary, 316, IF k = ShortName THEN hp ELSE TRUE, k)]
    /\ image = [k \in Keys |-> FlatScores]
    /\ ret = NoCall

NextRefine ==
    \/ ret = NoCall /\ \E r \in InputResults, pr \in BOOLEAN, vary \in VaryFlags, fit \in Fits,
          score \in ShapeOutcomes : Refine(ShortName, r, pr, vary, fit, score)
    \/ ret = NoCall /\ \E rs \in ResultLists, sort \in BOOLEAN, pr \in BOOLEAN :
          \E fits \in [1..Len(rs) -> FewFits], scores \in [1..Len(rs) -> ListScores] :
             RefineAll(ShortName, rs, sort, pr, VaryAll, fits, scores)
    \/ ret = NoCall /\ \E r \in InputResults, fit \in FewFits, score \in ShapeOutcomes :
          MultiRefine(r, VaryAll, fit, score)
    \/ ret = NoCall /\ \E rs \in ResultLists, sort \in BOOLEAN :
          \E fits \in [1..Len(rs) -> FewFits], scores \in [1..Len(rs) -> ListScores] :
             MultiRefineAll(rs, sort, VaryAll, fits, scores)
    \/ Return

SpecRefine == InitRefine /\ [][NextRefine]_vars

\* the life of a coordinator and its indexers: every method, in any order
Init ==
    /\ owned \in {<<>>, <<ShortName, LongName>>}
    /\ \E hp \in BOOLEAN :
          indexers = [k \in Keys |-> IF k = ShortName THEN Indexer(MixedLibrary, 316, hp, k)
                                     ELSE Indexer(PoorLibrary, 250, TRUE, k)]
    /\ image \in {[k \in Keys |-> f] : f \in {RisingScores, FlatScores}}
    /\ ret = NoCall

Next ==
    \/ ret = NoCall /\ \E k \in Keys, p \in PixelSizes : SetPixelsize(k, p)
    \/ ret = NoCall /\ \E p \in PixelSizes : MultiSetPixelsize(p)
    \/ ret = NoCall /\ \E k \in Keys, center \in Centers, n \in NSolutionsArgs, ph \in PhaseArgs :
          Index(k, center, n, ph)
    \/ ret = NoCall /\ \E k \in Keys, center \in Centers, n \in NSolutionsArgs, ph \in PhaseArgs :
          FindOrientation(k, center, n, ph)
    \/ ret = NoCall /\ \E center \in Centers, n \in NSolutionsArgs : MultiIndex(center, n)
    \/ ret = NoCall /\ \E k \in Keys, r \in InputResults, score \in ShapeOutcomes :
          Refine(k, r, FALSE, VaryAll, OneFit, score)
    \/ ret = NoCall /\ \E k \in Keys, rs \in FewLists, sort \in BOOLEAN :
          \E scores \in [1..Len(rs) -> ListScores] :
             RefineAll(k, rs, sort, FALSE, VaryAll, [i \in 1..Len(rs) |-> OneFit], scores)
    \/ ret = NoCall /\ \E r \in InputResults, score \in ShapeOutcomes :
          MultiRefine(r, VaryAll, OneFit, score)
    \/ ret = NoCall /\ \E rs \in FewLists, sort \in BOOLEAN :
          \E scores \in [1..Len(rs) -> ListScores] :
             MultiRefineAll(rs, sort, VaryAll, [i \in 1..Len(rs) |-> OneFit], scores)
    \/ ret = NoCall /\ \E k \in Keys, r \in InputResults : GetProjection(k, r)
    \/ ret = NoCall /\ \E k \in Keys, r \in InputResults : GetIntensities(k, r)
    \/ ret = NoCall /\ \E k \in Keys, r \in InputResults, pr \in BOOLEAN : Plot(k, r, pr)
    \/ ret = NoCall /\ \E r \in InputResults : MultiGetProjection(r)
    \/ ret = NoCall /\ \E r \in InputResults : MultiGetIntensities(r)
    \/ ret = NoCall /\ \E r \in InputResults : MultiPlot(r)
    \/ Return

Spec == Init /\ [][Next]_vars

----------------------------------------------------------------------------
\* Vocabulary of the properties

\* the caller holds what a single-phase search returned
Searched ==
    /\ ret.op \in {"Indexer.find_orientation", "Indexer.index"}
    /\ ret.error = ""

\* the Indexer the call was made on
Self == indexers[ret.self]

\* Q: the samples whose projection has enough reflections
Q == { n \in Samples : Self.projections[n] >= MinimumReflections }

\* the candidate triple (best_score, n, best_gamma) of sample n for the image at hand
Candidate(n) == <<BestOf(image[ret.self][n])[1], n, BestOf(image[ret.self][n])[2]>>

\* the sample numbers of the returned results
Returned == { ret.value[i].number : i \in 1..Len(ret.value) }

\* the phase the search was asked to tag its results with
SuppliedPhase == IF ret.phaseArg.given THEN ret.phaseArg.value ELSE Self.cellname

----------------------------------------------------------------------------
\* C1: whatever find_orientation returns has at most nsolutions results, and
\* their scores never increase from one result to the next.
C1_AtMostNSolutionsDescending ==
    Searched =>
        /\ Len(ret.value) <= EffectiveNSolutions(ret.nsolutions)
        /\ \A i \in 1..(Len(ret.value) - 1) : ret.value[i].score >= ret.value[i + 1].score

\* C1 witness: a search cut to 2 of 3 candidates whose two scores differ
C1_Witness ==
    /\ Searched
    /\ ret.op = "Indexer.find_orientation"
    /\ ret.nsolutions = NSolutions(2)
    /\ Cardinality(Q) > 2
    /\ Len(ret.value) = 2
    /\ ret.value[1].score > ret.value[2].score

\* C2 as claimed: two returned results of equal score come in ascending order
\* of sample index (and of gamma when the sample index is equal too).
C2_EqualScoreAscendingNumber ==
    Searched =>
        \A i, j \in 1..Len(ret.value) :
            (i < j /\ ret.value[i].score = ret.value[j].score) =>
                \/ ret.value[i].number < ret.value[j].number
                \/ /\ ret.value[i].number = ret.value[j].number
                   /\ ret.value[i].gamma <= ret.value[j].gamma

\* C2 amended: the results come in descending tuple order of their candidates
\* (unrounded score, sample index, gamma): of two results, the earlier has the
\* larger unrounded score, or the same unrounded score and the larger sample
\* index.
C2_DescendingTripleOrder ==
    Searched =>
        \A i, j \in 1..Len(ret.value) :
            i < j =>
                LET a == Candidate(ret.value[i].number)
                    b == Candidate(ret.value[j].number)
                IN  \/ a[1] > b[1]
                    \/ a[1] = b[1] /\ ret.value[i].number > ret.value[j].number

\* C2 witness: two returned results whose candidates tie on the unrounded score
C2_Witness ==
    /\ Searched
    /\ \E i, j \in 1..Len(ret.value) :
          /\ i < j
          /\ Candidate(ret.value[i].number)[1] = Candidate(ret.value[j].number)[1]
          /\ Candidate(ret.value[i].number)[1] > 0
          /\ ret.value[i].number > ret.value[j].number

\* what C3 says of a value the search returned: min(nsolutions, |Q|) results,
\* all of Q, no sample twice, none left out that scores higher than one kept
TopOfQ ==
    /\ Len(ret.value) = Min(EffectiveNSolutions(ret.nsolutions), Cardinality(Q))
    /\ Returned \subseteq Q
    /\ Cardinality(Returned) = Len(ret.value)
    /\ \A n \in Q \ Returned : \A m \in Returned : Candidate(n)[1] <= Candidate(m)[1]
    /\ (Q = {} => ret.value = <<>>)

\* C3: a search with a beam center returns, without an error, exactly
\* min(nsolutions, |Q|) results, the highest-scoring members of Q, each sample
\* at most once, and the empty sequence when Q is empty.
C3_ReturnsTopOfQ ==
    (ret.op \in {"Indexer.find_orientation", "Indexer.index"} /\ ret.center.given) =>
        (ret.error = "" /\ TopOfQ)

\* C4: no result of a search (single-phase or through the coordinator) carries
\* the number of a projection with fewer than minimum_reflections_in_projection
\* reflections.
C4_NoPoorProjectionReturned ==
    /\ Searched => \A i \in 1..Len(ret.value) :
          Self.projections[ret.value[i].number] >= MinimumReflections
    /\ (ret.op = "IndexerMulti.index" /\ ret.error = "") =>
          \A i \in 1..Len(ret.value) : \E k \in OwnedKeys(owned) :
              /\ ToS16(k) = ret.value[i].phase
              /\ indexers[k].projections[ret.value[i].number] >= MinimumReflections

\* C4 witness: a search with room for every sample returns results and leaves
\* out a projection that is one reflection short
C4_Witness ==
    /\ Searched
    /\ EffectiveNSolutions(ret.nsolutions) >= NumSamples
    /\ \E n \in Samples : Self.projections[n] = MinimumReflections - 1
    /\ \E n \in Returned : Self.projections[n] = MinimumReflections

\* C5: without a beam center every search entry point (here on indexers that
\* have their projector) raises ValueError and returns nothing.
C5_NoCenterIsValueError ==
    (/\ ret.op \in {"Indexer.index", "Indexer.find_orientation", "IndexerMulti.index"}
     /\ ~ret.center.given
     /\ \A k \in Keys : indexers[k].hasProjector) =>
        (ret.error = "ValueError" /\ ret.value = <<>>)

\* C6: every result of find_orientation has the candidate's score rounded to 2
\* decimals, the sample's alpha and beta and the gamma rounded to 4, the
\* Indexer's scale rounded to 4, the center as supplied and the phase as
\* supplied (compared by its characters), and rounding again changes nothing.
C6_MaterializedAsSupplied ==
    Searched =>
        \A i \in 1..Len(ret.value) :
            LET r == ret.value[i]
                c == Candidate(r.number)
            IN  /\ r.score = Round2(c[1])
                /\ r.alpha = Round4(Infos(r.number).alpha)
                /\ r.beta = Round4(Infos(r.number).beta)
                /\ r.gamma = Round4(c[3])
                /\ r.scale = Round4(Self.scale)
                /\ r.center_x = ret.center.x /\ r.center_y = ret.center.y
                /\ Round2(r.score) = r.score /\ Round4(r.alpha) = r.alpha
                /\ Round4(r.beta) = r.beta /\ Round4(r.gamma) = r.gamma
                /\ Round4(r.scale) = r.scale
                /\ r.phase.chars = SuppliedPhase.chars

\* C7: every Indexer has scale = 1/pixelsize at all times, and after
\* IndexerMulti.set_pixelsize(p) every owned Indexer has pixelsize p.
C7_ScaleIsReciprocal ==
    /\ \A k \in Keys :
          /\ indexers[k].pixelsize # 0
          /\ indexers[k].scale = Reciprocal(indexers[k].pixelsize)
    /\ ret.op = "IndexerMulti.set_pixelsize" =>
          \A k \in OwnedKeys(owned) : indexers[k].pixelsize = ret.pixelsize

\* C8: what Indexer.refine returns is one result with the number and the phase
\* (compared by its characters) of the input.
C8_RefineKeepsNumberAndPhase ==
    (ret.op = "Indexer.refine" /\ ret.error = "") =>
        /\ Len(ret.value) = 1
        /\ ret.value[1].number = ret.input[1].number
        /\ ret.value[1].phase.chars = ret.input[1].phase.chars

\* C9 as claimed: the refined center is within 2 pixels of the input center,
\* the refined scale within [0.8, 1.2] times the input scale, and a field whose
\* vary flag is False keeps the input value.
C9_WithinDeclaredBounds ==
    (ret.op = "Indexer.refine" /\ ret.error = "") =>
        LET in == ret.input[1]
            out == ret.value[1]
        IN  /\ CenterMin(in.center_x) <= out.center_x /\ out.center_x <= CenterMax(in.center_x)
            /\ CenterMin(in.center_y) <= out.center_y /\ out.center_y <= CenterMax(in.center_y)
            /\ ScaleMin(in.scale) <= out.scale /\ out.scale <= ScaleMax(in.scale)
            /\ ~ret.vary.center => (out.center_x = in.center_x /\ out.center_y = in.center_y)
            /\ ~ret.vary.scale => out.scale = in.scale
            /\ ~ret.vary.alphabeta => (out.alpha = in.alpha /\ out.beta = in.beta)
            /\ ~ret.vary.gamma => out.gamma = in.gamma

\* C9 amended: the refined center and scale lie between the declared bounds
\* rounded to 2 decimals, and a field whose vary flag is False is the input
\* value rounded (center and scale to 2 decimals, angles to 4).
C9_WithinRoundedBounds ==
    (ret.op = "Indexer.refine" /\ ret.error = "") =>
        LET in == ret.input[1]
            out == ret.value[1]
        IN  /\ Round2(CenterMin(in.center_x)) <= out.center_x
            /\ out.center_x <= Round2(CenterMax(in.center_x))
            /\ Round2(CenterMin(in.center_y)) <= out.center_y
            /\ out.center_y <= Round2(CenterMax(in.center_y))
            /\ Round2(ScaleMin(in.scale)) <= out.scale
            /\ out.scale <= Round2(ScaleMax(in.scale))
            /\ ~ret.vary.center =>
                  (out.center_x = Round2(in.center_x) /\ out.center_y = Round2(in.center_y))
            /\ ~ret.vary.scale => out.scale = Round2(in.scale)
            /\ ~ret.vary.alphabeta =>
                  (out.alpha = Round4(in.alpha) /\ out.beta = Round4(in.beta))
            /\ ~ret.vary.gamma => out.gamma = Round4(in.gamma)

\* C9 witness: the optimizer went to the upper bound of center_x and the
\* rounded result lies above it, while the scale was held fixed
C9_Witness ==
    /\ ret.op = "Indexer.refine" /\ ret.error = ""
    /\ ret.vary.center /\ ~ret.vary.scale
    /\ ret.value[1].center_x > CenterMax(ret.input[1].center_x)
    /\ ret.value[1].scale # ret.input[1].scale

\* the results handed in are IndexingResult tuples of owned phases, and every
\* owned Indexer has its projector
RefinableInput ==
    /\ \A i \in 1..Len(ret.input) :
          ret.input[i].kind = "namedtuple" /\ ret.input[i].phase \in OwnedKeys(owned)
    /\ \A k \in Keys : indexers[k].hasProjector

\* the one-to-one maps of the output positions onto the input positions
Orders(n) == { f \in [1..n -> 1..n] : \A i, j \in 1..n : i # j => f[i] # f[j] }

\* C10: refine_all, on Indexer and on IndexerMulti, returns one refined result
\* per input result without raising; sorted, the scores never increase and
\* results of equal score keep their input order; unsorted, the results are in
\* input order.
C10_RefineAllOnePerInput ==
    (ret.op \in {"Indexer.refine_all", "IndexerMulti.refine_all"} /\ RefinableInput) =>
        /\ ret.error = ""
        /\ Len(ret.value) = Len(ret.input)
        /\ \E f \in Orders(Len(ret.value)) :
              /\ \A i \in 1..Len(ret.value) : ret.value[i].number = ret.input[f[i]].number
              /\ ret.sort =>
                    \A i, j \in 1..Len(ret.value) :
                        i < j => \/ ret.value[i].score > ret.value[j].score
                                 \/ /\ ret.value[i].score = ret.value[j].score
                                    /\ f[i] < f[j]
              /\ ~ret.sort => \A i \in 1..Len(ret.value) : f[i] = i

----------------------------------------------------------------------------
\* Vocabulary of the coordinator's properties

\* the samples of phase k whose projection has enough reflections
QOf(k) == { n \in Samples : indexers[k].projections[n] >= MinimumReflections }

\* the score the coordinator is to report for sample n of phase k: the score
\* of the phase's result, rescaled by the phase's cell volume
Reported(k, n) == Rescale(Round2(BestOf(image[k][n])[1]), CellVolume(k))

\* the nsolutions IndexerMulti.index cuts its merged list to
MultiEffectiveNSolutions(a) == IF a.given THEN a.n ELSE MultiDefaultNSolutions

\* a search through the coordinator, with a beam center, on indexers that all
\* have their projector
MultiSearched ==
    /\ ret.op = "IndexerMulti.index"
    /\ ret.center.given
    /\ \A k \in Keys : indexers[k].hasProjector

\* C11: IndexerMulti.index returns at most nsolutions results (20 by default),
\* in descending order of rescaled score, each the rescaled candidate of a
\* qualifying sample of an owned phase, and no qualifying candidate left out
\* has a rescaled score above one that is returned.
C11_MultiIndexGlobalTop ==
    MultiSearched =>
        /\ ret.error = ""
        /\ Len(ret.value) <= MultiEffectiveNSolutions(ret.nsolutions)
        /\ \A i \in 1..(Len(ret.value) - 1) : ret.value[i].score >= ret.value[i + 1].score
        /\ \A i \in 1..Len(ret.value) : \E k \in OwnedKeys(owned) :
              /\ ret.value[i].number \in QOf(k)
              /\ ret.value[i].score = Reported(k, ret.value[i].number)
        /\ \A k \in OwnedKeys(owned) : \A n \in QOf(k) :
              \/ \E i \in 1..Len(ret.value) :
                    ret.value[i].number = n /\ ret.value[i].score = Reported(k, n)
              \/ /\ Len(ret.value) = MultiEffectiveNSolutions(ret.nsolutions)
                 /\ \A i \in 1..Len(ret.value) : Reported(k, n) <= ret.value[i].score

\* a refinement through the coordinator of an IndexingResult tuple of an owned
\* phase, on indexers that all have their projector
MultiRefined ==
    /\ ret.op = "IndexerMulti.refine"
    /\ ret.input[1].kind = "namedtuple"
    /\ ret.input[1].phase \in OwnedKeys(owned)
    /\ \A k \in Keys : indexers[k].hasProjector

\* C12: IndexerMulti.refine returns what the owner's refine returns, with the
\* score the kernel gave the refined orientation multiplied once by the
\* phase's cell volume / 5000, whatever score the input carried.
C12_MultiRefineRescalesOnce ==
    MultiRefined =>
        /\ ret.error = ""
        /\ Len(ret.value) = 1
        /\ ret.value[1].number = ret.input[1].number
        /\ \E s \in ShapeOutcomes :
              ret.value[1].score = Rescale(Round2(s), CellVolume(ret.input[1].phase))

\* C13: of two phases that score identically, the one with the smaller cell
\* volume gets the strictly smaller rescaled score: for every raw score the
\* search gives a qualifying sample on the image at hand, rescaling it by the
\* smaller volume gives strictly less than rescaling it by the larger.
C13_SmallerVolumeReportsLess ==
    MultiSearched =>
        \A n \in QOf(ShortName) :
            LET s == Round2(BestOf(image[ShortName][n])[1])
            IN  Rescale(s, CellVolume(ShortName)) < Rescale(s, CellVolume(LongName))

\* the result handed to the coordinator carries a phase, and it is no key of
\* the phase-to-Indexer mapping
UnknownPhase(r) == r.kind # "void" /\ r.phase \notin OwnedKeys(owned)

\* C14: IndexerMulti.refine, get_projection, get_intensities and plot, given a
\* result whose phase is not a key of the mapping, raise KeyError and return
\* nothing (no Indexer stands in); refine_all raises when any of its inputs
\* has such a phase.
C14_UnknownPhaseIsLookupError ==
    /\ (/\ ret.op \in {"IndexerMulti.refine", "IndexerMulti.get_projection",
                        "IndexerMulti.get_intensities", "IndexerMulti.plot"}
        /\ UnknownPhase(ret.input[1])) =>
            (ret.error = "KeyError" /\ ret.value = <<>>)
    /\ (/\ ret.op = "IndexerMulti.refine_all"
        /\ \E i \in 1..Len(ret.input) : UnknownPhase(ret.input[i])) =>
            (ret.error # "" /\ ret.value = <<>>)

\* C14 witness: a coordinator that owns two phases was asked for the projection
\* of an IndexingResult of a third phase and raised KeyError
C14_Witness ==
    /\ ret.op = "IndexerMulti.get_projection"
    /\ owned # <<>>
    /\ ret.input[1].kind = "namedtuple"
    /\ ret.input[1].phase = OtherLongName
    /\ ret.error = "KeyError"

\* C15: a search or a refinement, on an Indexer or through the coordinator,
\* leaves every attribute of every Indexer and the coordinator's mapping as
\* they were before the call.
C15_SearchAndRefineWriteNothing ==
    [][ret'.op \in {"Indexer.index", "Indexer.find_orientation", "IndexerMulti.index",
                    "Indexer.refine", "Indexer.refine_all",
                    "IndexerMulti.refine", "IndexerMulti.refine_all"}
          => (indexers' = indexers /\ owned' = owned)]_vars

\* C16: get_projection, on an Indexer and through the coordinator, hands the
\* caller the projection the projector produces for the result's alpha, beta
\* and gamma.
C16_GetProjectionReturnsProjection ==
    (ret.op \in {"Indexer.get_projection", "IndexerMulti.get_projection"} /\ ret.error = "") =>
        ret.value = <<Projection(ret.input[1].alpha, ret.input[1].beta, ret.input[1].gamma)>>

\* C17 as claimed: the scores are rounded before the candidates are sorted, so
\* results of equal (rounded) score follow the tie-break on the sample index
\* alone, all in the one direction or all in the other.
C17_OrderByRoundedScore ==
    Searched =>
        \/ \A i, j \in 1..Len(ret.value) :
              (i < j /\ ret.value[i].score = ret.value[j].score) =>
                  ret.value[i].number < ret.value[j].number
        \/ \A i, j \in 1..Len(ret.value) :
              (i < j /\ ret.value[i].score = ret.value[j].score) =>
                  ret.value[i].number > ret.value[j].number

\* C17 amended: the candidates are sorted by their unrounded scores and the
\* score is rounded only when the results are built: an earlier result never
\* has the smaller unrounded score, and each score field is the unrounded
\* score rounded to 2 decimals.
C17_OrderByUnroundedScore ==
    Searched =>
        /\ \A i \in 1..Len(ret.value) :
              ret.value[i].score = Round2(Candidate(ret.value[i].number)[1])
        /\ \A i, j \in 1..Len(ret.value) :
              i < j => Candidate(ret.value[i].number)[1] >= Candidate(ret.value[j].number)[1]

\* C17 witness: two results of equal rounded score whose order follows the
\* unrounded scores, against the order of the sample index
C17_Witness ==
    /\ Searched
    /\ \E i, j \in 1..Len(ret.value) :
          /\ i < j
          /\ ret.value[i].score = ret.value[j].score
          /\ Candidate(ret.value[i].number)[1] > Candidate(ret.value[j].number)[1]
          /\ ret.value[i].number < ret.value[j].number

\* C18: what IndexerMulti.refine and refine_all return for IndexingResult
\* tuples of owned phases carries a phase that is a key of the mapping, and a
\* record that an owned Indexer's refine produced (its phase as the '<S16'
\* field stores that Indexer's key), passed back to IndexerMulti.refine, does
\* not raise the unknown-phase KeyError.
C18_ReturnedPhaseIsAKey ==
    /\ (ret.op \in {"IndexerMulti.refine", "IndexerMulti.refine_all"} /\ RefinableInput) =>
          /\ ret.error = ""
          /\ \A i \in 1..Len(ret.value) : ret.value[i].phase \in OwnedKeys(owned)
    /\ (/\ ret.op = "IndexerMulti.refine"
        /\ ret.input[1].kind = "record"
        /\ \E k \in OwnedKeys(owned) : ret.input[1].phase = ToS16(k)) =>
          ret.error # "KeyError"

====
